---- MODULE Spec2Model ----
(***************************************************************************)
(* DeepSort (deepsort_tracker.py): the per-frame wrapper update_tracks     *)
(* around the tracking engine (Tracker), the appearance embedder and       *)
(* non-max suppression.  The wrapper is translated from the source; the    *)
(* engine, the embedder and non_max_suppression are modules of the         *)
(* repository that deepsort_tracker.py imports, and are modelled from      *)
(* their description in the specification.                                 *)
(*                                                                         *)
(* Numbers: boxes are <<left, top, width, height>> in integer cells,       *)
(* confidences and cosine distances are in tenths, overlaps in percent.    *)
(***************************************************************************)
EXTENDS Integers, Sequences, FiniteSets, TLC

VARIABLES
    args,            \* the arguments DeepSort.__init__ was called with
    nms_max_overlap, \* self.nms_max_overlap (percent)
    embedder,        \* self.embedder: None or Some("Embedder")
    tracker,         \* self.tracker: the Tracker object
    clock_day,       \* the date the clock object reports now
    calls,           \* number of update_tracks calls made so far
    call,            \* arguments of the last update_tracks call
    ret,             \* how the last call ended: "none", "ok", "raise"
    returned,        \* the list the last call returned (empty after a raise)
    log,             \* what the last call handed to embedder, NMS and tracker
    issued,          \* every track identifier assigned so far, in order
    scen,            \* consecutive calls so far that repeat the two-object frame
    dropped          \* the tracks the last call removed from the live set

vars == <<args, nms_max_overlap, embedder, tracker, clock_day, calls, call,
          ret, returned, log, issued, scen, dropped>>

\* the value of nms_max_overlap that disables suppression (1.0), percent
NoSuppression == 100

----------------------------------------------------------------------------
(* Bounds of the exploration *)

MaxCalls == 5
MaxPipeCalls == 2
MaxDay == 2

----------------------------------------------------------------------------
(* Optional values: None, or Some(x) *)

None == <<>>
Some(x) == <<x>>
Val(o) == o[1]

Min(a, b) == IF a < b THEN a ELSE b
Max(a, b) == IF a > b THEN a ELSE b

RECURSIVE SumOver(_, _)
SumOver(S, f) ==
    IF S = {} THEN 0
    ELSE LET x == CHOOSE y \in S : TRUE IN f[x] + SumOver(S \ {x}, f)

Range(s) == {s[i] : i \in 1..Len(s)}

----------------------------------------------------------------------------
(* Detection(tlwh, confidence, feature, class_name) *)

Detection(tlwh, confidence, feature, class_name) ==
    [tlwh |-> tlwh, confidence |-> confidence, feature |-> feature,
     class_name |-> class_name]

Area(b) == b[3] * b[4]

Inter(a, b) ==
    LET iw == Min(a[1] + a[3], b[1] + b[3]) - Max(a[1], b[1])
        ih == Min(a[2] + a[4], b[2] + b[4]) - Max(a[2], b[2])
    IN  IF iw > 0 /\ ih > 0 THEN iw * ih ELSE 0

\* intersection over union of two boxes, in percent
Iou(a, b) ==
    LET i == Inter(a, b)
        u == Area(a) + Area(b) - i
    IN  IF u <= 0 THEN 0 ELSE (i * 100) \div u

----------------------------------------------------------------------------
(* non_max_suppression(boxes, max_bbox_overlap, scores): the kept indices, *)
(* best score first; a box is suppressed when the picked box covers more   *)
(* than max_bbox_overlap of it.                                            *)

Covered(picked, other) ==
    IF Area(other) <= 0 THEN 0 ELSE (Inter(picked, other) * 100) \div Area(other)

RECURSIVE NmsPick(_, _, _, _, _)
NmsPick(boxes, max_bbox_overlap, scores, idxs, pick) ==
    IF idxs = {} THEN pick
    ELSE LET i == CHOOSE k \in idxs :
                      \A j \in idxs : scores[j] < scores[k]
                                      \/ (scores[j] = scores[k] /\ j <= k)
             rest == {j \in idxs \ {i} :
                          Covered(boxes[i], boxes[j]) <= max_bbox_overlap}
         IN  NmsPick(boxes, max_bbox_overlap, scores, rest, Append(pick, i))

non_max_suppression(boxes, max_bbox_overlap, scores) ==
    NmsPick(boxes, max_bbox_overlap, scores, 1..Len(boxes), <<>>)

----------------------------------------------------------------------------
(* Embedder.predict(crops): one descriptor per crop, same order, same      *)
(* count; the descriptor is a function of the crop.                        *)

EmbedDim == 4

Embedder_predict(crops) ==
    [i \in 1..Len(crops) |-> [v |-> 10 + crops[i][3], dim |-> EmbedDim]]

----------------------------------------------------------------------------
(* The tracking engine: Track and Tracker *)

n_init == 3                \* confirmation threshold (hits)
max_cosine_distance == 2   \* appearance gate, tenths
max_iou_distance == 70     \* 100 - IOU floor, percent
gating_threshold == 1      \* motion gate: admissible offset of a detection, cells

\* cosine distance of two descriptors, tenths: 0 for the same direction
CosineDistance(f, g) == IF f.v = g.v THEN 0 ELSE 10

\* Appearance Gallery cost: the minimum distance to any descriptor of the track
GalleryCost(track, det) ==
    IF \E f \in track.features : CosineDistance(f, det.feature) = 0 THEN 0 ELSE 10

\* Motion Model gate between a track's predicted box and a detection
Gate(track, det) ==
    /\ det.tlwh[1] - track.mean[1] <= gating_threshold
    /\ track.mean[1] - det.tlwh[1] <= gating_threshold
    /\ det.tlwh[2] - track.mean[2] <= gating_threshold
    /\ track.mean[2] - det.tlwh[2] <= gating_threshold

\* descriptors of different lengths cannot be compared: the distance
\* computation fails
ShapeError(tracks, rows, dets, cols) ==
    \E r \in rows, c \in cols :
        \E f \in tracks[r].features : f.dim # dets[c].feature.dim

\* Minimum-cost one-to-one assignment of columns to rows; a pair whose cost
\* exceeds max_distance is clipped to max_distance + 1 and rejected after
\* the solve.  The result maps each column to its row, or to 0.
min_cost_matching(rows, cols, cost, max_distance) ==
    LET Ms == {m \in [cols -> rows \cup {0}] :
                  /\ \A c \in cols : m[c] # 0 => cost[<<m[c], c>>] <= max_distance
                  /\ \A c1, c2 \in cols : (c1 # c2 /\ m[c1] # 0) => m[c1] # m[c2]}
        size == Min(Cardinality(rows), Cardinality(cols))
        total == [m \in Ms |->
                     SumOver(cols, [c \in cols |->
                         IF m[c] = 0 THEN 0 ELSE cost[<<m[c], c>>]])
                     + (size - Cardinality({c \in cols : m[c] # 0}))
                       * (max_distance + 1)]
    IN  CHOOSE m \in Ms : \A m2 \in Ms : total[m] <= total[m2]

\* Cascaded matching, youngest bucket first; acc holds the matches so far
\* (pairs <<track index, detection index>>) and the raise flag
RECURSIVE matching_cascade(_, _, _, _, _)
matching_cascade(tracks, dets, age, max_age, acc) ==
    LET cols == {c \in 1..Len(dets) : \A p \in acc.matches : p[2] # c}
        rows == {r \in 1..Len(tracks) : tracks[r].time_since_update = age}
    IN  IF age > max_age \/ acc.raised \/ cols = {} THEN acc
        ELSE IF rows = {} THEN matching_cascade(tracks, dets, age + 1, max_age, acc)
        ELSE IF ShapeError(tracks, rows, dets, cols)
             THEN [acc EXCEPT !.raised = TRUE]
        ELSE LET cost == [p \in rows \X cols |->
                             IF Gate(tracks[p[1]], dets[p[2]])
                             THEN GalleryCost(tracks[p[1]], dets[p[2]])
                             ELSE max_cosine_distance + 1]
                 m == min_cost_matching(rows, cols, cost, max_cosine_distance)
                 found == {<<m[c], c>> : c \in {c \in cols : m[c] # 0}}
             IN  matching_cascade(tracks, dets, age + 1, max_age,
                                  [acc EXCEPT !.matches = @ \cup found])

\* The motion-only tie-break over what the cascade left unmatched
iou_matching(tracks, dets, matches) ==
    LET rows == {r \in 1..Len(tracks) : \A p \in matches : p[1] # r}
        cols == {c \in 1..Len(dets) : \A p \in matches : p[2] # c}
        cost == [p \in rows \X cols |->
                    100 - Iou(tracks[p[1]].mean, dets[p[2]].tlwh)]
        m == min_cost_matching(rows, cols, cost, max_iou_distance)
    IN  IF rows = {} \/ cols = {} THEN matches
        ELSE matches \cup {<<m[c], c>> : c \in {c \in cols : m[c] # 0}}

Tracker_match_rest(tracks, dets, acc) ==
    IF acc.raised THEN acc
    ELSE [acc EXCEPT !.matches = iou_matching(tracks, dets, acc.matches)]

Tracker_match(tracks, dets, max_age) ==
    Tracker_match_rest(tracks, dets,
        matching_cascade(tracks, dets, 0, max_age,
                         [raised |-> FALSE, matches |-> {}]))

\* Track.predict: the motion state is advanced one step and its uncertainty
\* inflated (cov counts the predictions since the last correction)
Track_predict(t) == [t EXCEPT !.cov = @ + 1]

\* Track.update: correct with the matched detection
Track_update(t, det) ==
    LET h == t.hits + 1 IN
    [t EXCEPT !.mean = det.tlwh,
              !.cov = 0,
              !.features = @ \cup {det.feature},
              !.det_class = det.class_name,
              !.hits = h,
              !.time_since_update = 0,
              !.state = IF t.state = "Tentative" /\ h >= n_init
                        THEN "Confirmed" ELSE t.state,
              !.streak = IF t.streak_open THEN @ + 1 ELSE @]

\* Track.mark_missed: age an unmatched track
Track_mark_missed(t, max_age) ==
    LET a == t.time_since_update + 1 IN
    [t EXCEPT !.time_since_update = a,
              !.streak_open = FALSE,
              !.state = IF t.state = "Tentative" THEN "Deleted"
                        ELSE IF a > max_age THEN "Deleted" ELSE t.state]

\* A new Tentative track seeded with an unmatched detection
Track_new(det, track_id) ==
    [track_id |-> track_id, state |-> "Tentative", hits |-> 1,
     time_since_update |-> 0, mean |-> det.tlwh, cov |-> 0,
     features |-> {det.feature}, det_class |-> det.class_name,
     streak |-> 1, streak_open |-> TRUE]

Tracker_new(max_age, clock, now) ==
    [tracks |-> <<>>, next_id |-> 1, max_age |-> max_age, clock |-> clock,
     today |-> IF clock = None THEN 0 ELSE now]

Tracker_predict(trk) ==
    [trk EXCEPT !.tracks = [i \in 1..Len(trk.tracks) |-> Track_predict(trk.tracks[i])]]

\* The day-boundary hook: on a new day the counter restarts; identifiers
\* carry the day
Tracker_clock(trk, now) ==
    IF trk.clock # None /\ now # trk.today
    THEN [trk EXCEPT !.today = now, !.next_id = 1]
    ELSE trk

\* Tracker.update after association: update matched, age unmatched,
\* spawn, collect
Tracker_commit(trk, dets, matches) ==
    LET tracks == trk.tracks
        detOf == [r \in 1..Len(tracks) |->
                     IF \E p \in matches : p[1] = r
                     THEN (CHOOSE p \in matches : p[1] = r)[2] ELSE 0]
        stepped == [r \in 1..Len(tracks) |->
                       IF detOf[r] # 0 THEN Track_update(tracks[r], dets[detOf[r]])
                       ELSE Track_mark_missed(tracks[r], trk.max_age)]
        unmatched == {c \in 1..Len(dets) : \A p \in matches : p[2] # c}
        fresh == [k \in 1..Cardinality(unmatched) |->
                     LET c == CHOOSE d \in unmatched :
                                  Cardinality({e \in unmatched : e < d}) = k - 1
                     IN  Track_new(dets[c], <<trk.today, trk.next_id + k - 1>>)]
        alive == SelectSeq(stepped, LAMBDA t : t.state # "Deleted")
    IN  [raised |-> FALSE,
         tracker |-> [trk EXCEPT !.tracks = alive \o fresh,
                                 !.next_id = @ + Len(fresh)],
         new_ids |-> [k \in 1..Len(fresh) |-> fresh[k].track_id]]

Tracker_associate(trk, dets, res) ==
    IF res.raised
    THEN [raised |-> TRUE, tracker |-> trk, new_ids |-> <<>>]
    ELSE Tracker_commit(trk, dets, res.matches)

Tracker_update_today(trk, dets) ==
    Tracker_associate(trk, dets, Tracker_match(trk.tracks, dets, trk.max_age))

\* Tracker.update: the day-boundary hook, then the frame's cycle
Tracker_update(trk, dets, now) ==
    Tracker_update_today(Tracker_clock(trk, now), dets)

----------------------------------------------------------------------------
(* DeepSort: the wrapper of deepsort_tracker.py *)

\* the constructor as it would be if max_age were not passed on to the
\* Tracker, which then keeps its default of 30 frames
DeepSort_init_default_age(max_age, nms, clock, with_embedder, now) ==
    [nms_max_overlap |-> nms,
     tracker |-> Tracker_new(30, clock, now),
     embedder |-> IF with_embedder THEN Some("Embedder") ELSE None]

\* DeepSort.__init__: self.nms_max_overlap, self.tracker, self.embedder
DeepSort_init(max_age, nms, clock, with_embedder, now) ==
    [nms_max_overlap |-> nms,
     tracker |-> Tracker_new(max_age, clock, now),
     embedder |-> IF with_embedder THEN Some("Embedder") ELSE None]

\* update_tracks, the checks on entry: embeds is None and there is no
\* embedder, or no frame
MissingEmbeds(self, embeds, frame) ==
    embeds = None /\ (self.embedder = None \/ frame = None)

\* the filter as it would be with "or" for "and"
KeepDetection_or(d) == d[1][3] > 0 \/ d[1][4] > 0

\* update_tracks, the filter on raw_detections: d[0][2] > 0 and d[0][3] > 0
KeepDetection(d) == d[1][3] > 0 /\ d[1][4] > 0

RECURSIVE FilterDetections(_)
FilterDetections(raw) ==
    IF raw = <<>> THEN <<>>
    ELSE (IF KeepDetection(Head(raw)) THEN <<Head(raw)>> ELSE <<>>)
         \o FilterDetections(Tail(raw))

\* generate_embeds: one crop per detection, clipped to the frame; a crop is
\* <<crop_t, crop_b, crop_l, crop_r>>
generate_embeds(frame, raw_dets) ==
    LET im_height == frame.shape[1]
        im_width == frame.shape[2]
        crops == [i \in 1..Len(raw_dets) |->
                    LET l == raw_dets[i][1][1]
                        t == raw_dets[i][1][2]
                        w == raw_dets[i][1][3]
                        h == raw_dets[i][1][4]
                    IN  <<Max(0, t), Min(im_height, t + h),
                          Max(0, l), Min(im_width, l + w)>>]
    IN  Embedder_predict(crops)

\* create_detections as it would be with a loop that stops one pair early
create_detections_short(raw_dets, embeds) ==
    [i \in 1..(Min(Len(raw_dets), Len(embeds)) - 1) |->
        Detection(raw_dets[i][1], raw_dets[i][2], embeds[i], raw_dets[i][3])]

\* create_detections: zip(raw_dets, embeds) stops at the shorter list
create_detections(raw_dets, embeds) ==
    [i \in 1..Min(Len(raw_dets), Len(embeds)) |->
        Detection(raw_dets[i][1], raw_dets[i][2], embeds[i], raw_dets[i][3])]

\* the value returned as it would be if only confirmed tracks were handed out
ReturnValue_confirmed(trk) ==
    SelectSeq(trk.tracks, LAMBDA t : t.state = "Confirmed")

\* update_tracks, the value returned: self.tracker.tracks
ReturnValue(trk) == trk.tracks

\* what one call computed and handed on: the filtered raw detections, the
\* list given to the embedder, the Detection objects, the boxes given to
\* non_max_suppression and the indices it returned, the list given to the
\* tracker (None: not reached)
NoLog == [raw_dets |-> None, embedder_in |-> None, detections |-> None,
          nms_in |-> None, nms_out |-> None, tracker_in |-> None]

\* update_tracks, the end: the result of the tracker's update and the
\* value returned
FrameResult(upd, lg) ==
    IF upd.raised
    THEN [ret |-> "raise", tracker |-> upd.tracker, returned |-> <<>>,
          log |-> lg, new_ids |-> <<>>]
    ELSE [ret |-> "ok", tracker |-> upd.tracker,
          returned |-> ReturnValue(upd.tracker),
          log |-> lg, new_ids |-> upd.new_ids]

\* update_tracks, "Update tracker": self.tracker.predict(), then
\* self.tracker.update(detections)
TrackFrame(self, detections, lg, now) ==
    FrameResult(Tracker_update(Tracker_predict(self.tracker), detections, now),
                [lg EXCEPT !.tracker_in = Some(detections)])

\* update_tracks, "Run non-maxima suppression"
SuppressFrame(self, detections, lg, now) ==
    LET boxes == [i \in 1..Len(detections) |-> detections[i].tlwh]
        scores == [i \in 1..Len(detections) |-> detections[i].confidence]
        indices == non_max_suppression(boxes, self.nms_max_overlap, scores)
    IN  IF self.nms_max_overlap < NoSuppression
        THEN TrackFrame(self,
                        [k \in 1..Len(indices) |-> detections[indices[k]]],
                        [lg EXCEPT !.detections = Some(detections),
                                   !.nms_in = Some(boxes),
                                   !.nms_out = Some(indices)],
                        now)
        ELSE TrackFrame(self, detections,
                        [lg EXCEPT !.detections = Some(detections)], now)

\* update_tracks, the embeddings and the Detection objects of the kept
\* raw detections
EmbedFrame(self, raw_dets, embeds, frame, now) ==
    SuppressFrame(self,
        create_detections(raw_dets,
            IF embeds = None THEN generate_embeds(Val(frame), raw_dets)
            ELSE Val(embeds)),
        [NoLog EXCEPT !.raw_dets = Some(raw_dets),
                      !.embedder_in = IF embeds = None THEN Some(raw_dets)
                                      ELSE None],
        now)

\* update_tracks as it would be with the entry checks made after
\* self.tracker.predict()
update_tracks_late_check(self, raw_detections, embeds, frame, now) ==
    IF MissingEmbeds(self, embeds, frame)
    THEN [ret |-> "raise", tracker |-> Tracker_predict(self.tracker),
          returned |-> <<>>, log |-> NoLog, new_ids |-> <<>>]
    ELSE EmbedFrame(self, FilterDetections(raw_detections), embeds, frame, now)

\* DeepSort.update_tracks
update_tracks(self, raw_detections, embeds, frame, now) ==
    IF MissingEmbeds(self, embeds, frame)
    THEN [ret |-> "raise", tracker |-> self.tracker, returned |-> <<>>,
          log |-> NoLog, new_ids |-> <<>>]
    ELSE EmbedFrame(self, FilterDetections(raw_detections), embeds, frame, now)

\* refresh_track_ids as it would be if it restarted the counter
refresh_track_ids_reset(self) == [self EXCEPT !.tracker.next_id = 1]

\* DeepSort.refresh_track_ids: the body reads self.tracker._next_id and
\* assigns nothing
refresh_track_ids(self) == self

----------------------------------------------------------------------------
(* Inputs *)

Fa == [v |-> 1, dim |-> 4]
Fb == [v |-> 2, dim |-> 4]
Fc == [v |-> 3, dim |-> 3]    \* a descriptor of another length

RawA == <<(<<0, 0, 1, 1>>), 5, "person">>
RawB == <<(<<2, 2, 1, 1>>), 8, "person">>
RawZ == <<(<<0, 0, 0, 1>>), 5, "person">>   \* zero width
RawN == <<(<<2, 2, 1, -1>>), 8, "person">>  \* negative height

Frame == [shape |-> <<4, 4>>]

Call(raw, embeds, frame) == [raw |-> raw, embeds |-> embeds, frame |-> frame]

\* the frames of the __main__ scenario: two separated objects with their
\* two descriptors
ScenarioCall == Call(<<RawA, RawB>>, Some(<<Fa, Fb>>), None)

LifeCalls ==
    { Call(<<>>, Some(<<>>), None),
      Call(<<RawA>>, Some(<<Fa>>), None),
      Call(<<RawA>>, Some(<<Fb>>), None),
      Call(<<RawA>>, Some(<<Fc>>), None),
      Call(<<RawA, RawA>>, Some(<<Fa, Fa>>), None),
      ScenarioCall }

PipeRaw ==
    { <<>>, <<RawA>>, <<RawZ>>, <<RawA, RawB>>, <<RawB, RawA>>, <<RawA, RawA>>,
      <<RawZ, RawA>>, <<RawA, RawN>>, <<RawZ, RawA, RawB>>, <<RawA, RawN, RawB>> }

PipeEmbeds ==
    { Some(<<>>), Some(<<Fa>>), Some(<<Fa, Fb>>), Some(<<Fb, Fa>>),
      Some(<<Fa, Fb, Fa>>) }

PipeCalls ==
    {Call(r, e, None) : r \in PipeRaw, e \in PipeEmbeds}
    \cup {Call(r, None, f) : r \in PipeRaw, f \in {None, Some(Frame)}}

----------------------------------------------------------------------------
(* Actions *)

Self == [nms_max_overlap |-> nms_max_overlap, tracker |-> tracker,
         embedder |-> embedder]

Constructed(self, max_age, nms, clock, with_embedder) ==
    /\ args = [max_age |-> max_age, nms_max_overlap |-> nms, clock |-> clock,
               embedder |-> with_embedder]
    /\ nms_max_overlap = self.nms_max_overlap
    /\ embedder = self.embedder
    /\ tracker = self.tracker
    /\ clock_day = 1
    /\ calls = 0
    /\ call = Call(<<>>, None, None)
    /\ ret = "none"
    /\ returned = <<>>
    /\ log = NoLog
    /\ issued = <<>>
    /\ scen = 0
    /\ dropped = {}

InitWith(max_age, nms, clock, with_embedder) ==
    Constructed(DeepSort_init(max_age, nms, clock, with_embedder, 1),
                max_age, nms, clock, with_embedder)

\* one call of update_tracks(raw_detections, embeds, frame) and its result r
Called(c, r) ==
    /\ tracker' = r.tracker
    /\ ret' = r.ret
    /\ returned' = r.returned
    /\ log' = r.log
    /\ issued' = issued \o r.new_ids
    /\ call' = c
    /\ calls' = calls + 1
    /\ scen' = IF r.ret = "ok" /\ c = ScenarioCall THEN scen + 1 ELSE 0
    /\ dropped' = {tracker.tracks[i] : i \in {k \in 1..Len(tracker.tracks) :
                       tracker.tracks[k].track_id \notin
                           {r.tracker.tracks[j].track_id :
                                j \in 1..Len(r.tracker.tracks)}}}
    /\ UNCHANGED <<args, nms_max_overlap, embedder, clock_day>>

UpdateTracks(c) ==
    Called(c, update_tracks(Self, c.raw, c.embeds, c.frame, clock_day))

\* one call of refresh_track_ids() and the object it leaves
Refreshed(self) ==
    /\ tracker' = self.tracker
    /\ nms_max_overlap' = self.nms_max_overlap
    /\ embedder' = self.embedder
    /\ UNCHANGED <<args, clock_day, calls, call, ret, returned, log, issued, scen,
                   dropped>>

RefreshTrackIds == Refreshed(refresh_track_ids(Self))

\* the clock passes a day boundary
ClockTick ==
    /\ args.clock # None
    /\ clock_day < MaxDay
    /\ clock_day' = clock_day + 1
    /\ UNCHANGED <<args, nms_max_overlap, embedder, tracker, calls, call, ret,
                   returned, log, issued, scen, dropped>>

LifeUpdate == calls < MaxCalls /\ \E c \in LifeCalls : UpdateTracks(c)
PipeUpdate == calls < MaxPipeCalls /\ \E c \in PipeCalls : UpdateTracks(c)

\* sessions of the tracker as __main__ builds it (descriptors from the
\* caller, no suppression), with and without a clock
Init == \E max_age \in {1, 2}, clock \in {None, Some("Clock")} :
            InitWith(max_age, NoSuppression, clock, FALSE)
Next == LifeUpdate \/ RefreshTrackIds \/ ClockTick
Spec == Init /\ [][Next]_vars

\* sessions that exercise the wrapper's input handling
InitPipe == \E nms \in {NoSuppression, 50}, with_embedder \in BOOLEAN :
                InitWith(1, nms, None, with_embedder)
NextPipe == PipeUpdate \/ RefreshTrackIds
SpecPipe == InitPipe /\ [][NextPipe]_vars

----------------------------------------------------------------------------
(* Properties of the tracker's sessions (Spec) *)

Live == tracker.tracks
TrackIds(trks) == {trks[i].track_id : i \in 1..Len(trks)}
IsCall == calls' = calls + 1

\* C1: the list update_tracks returns is the tracker's live track set, and
\* every track in it is Tentative or Confirmed, never Deleted.
C1_ReturnedIsLiveSet ==
    ret = "ok" =>
        /\ returned = Live
        /\ \A i \in 1..Len(returned) :
               returned[i].state \in {"Tentative", "Confirmed"}

\* a call has returned tracks after some earlier track was deleted
C1_Witness ==
    /\ ret = "ok"
    /\ returned # <<>>
    /\ \E k \in 1..Len(issued) : issued[k] \notin TrackIds(returned)
    /\ \E i \in 1..Len(returned) : returned[i].state = "Confirmed"
    /\ \E i \in 1..Len(returned) : returned[i].state = "Tentative"

\* C2: over a session, refresh_track_ids and day changes included, no
\* identifier is assigned twice (so none of a deleted track is reassigned)
\* and no two live tracks share one.
C2_IdentifiersUnique ==
    /\ \A i, j \in 1..Len(issued) : i # j => issued[i] # issued[j]
    /\ \A i, j \in 1..Len(Live) : i # j => Live[i].track_id # Live[j].track_id
    /\ TrackIds(Live) \subseteq Range(issued)

\* the counter has restarted on a new day while a track of the day before
\* is live, and an earlier track is gone
C2_Witness ==
    /\ \E i, j \in 1..Len(issued) :
           i < j /\ issued[i][2] = issued[j][2] /\ issued[i][1] # issued[j][1]
    /\ \E i, j \in 1..Len(Live) : Live[i].track_id[1] # Live[j].track_id[1]
    /\ \E k \in 1..Len(issued) : issued[k] \notin TrackIds(Live)

\* the tracks updated in the last call with a detection whose box is b
MatchedAt(trks, b) ==
    {trks[i].track_id : i \in {k \in 1..Len(trks) :
        trks[k].mean = b /\ trks[k].time_since_update = 0}}

\* C3, after every frame: a live track is Confirmed exactly when its first
\* n_init frames were all matches; and after three successive frames with
\* the two separated objects there are two Confirmed tracks on them with
\* different identifiers.
C3_State ==
    /\ \A i \in 1..Len(Live) :
           Live[i].state = "Confirmed" <=> Live[i].streak >= n_init
    /\ scen >= 3 =>
           \E i, j \in 1..Len(Live) :
               /\ Live[i].mean = RawA[1] /\ Live[j].mean = RawB[1]
               /\ Live[i].time_since_update = 0 /\ Live[j].time_since_update = 0
               /\ Live[i].state = "Confirmed" /\ Live[j].state = "Confirmed"
               /\ Live[i].track_id # Live[j].track_id

\* C3, from frame to frame: while the two objects persist, each keeps the
\* identifier it had in the frame before.
C3_Step ==
    (scen >= 1 /\ scen' = scen + 1) =>
        /\ Cardinality(MatchedAt(tracker.tracks, RawA[1])) = 1
        /\ Cardinality(MatchedAt(tracker.tracks, RawB[1])) = 1
        /\ MatchedAt(tracker'.tracks, RawA[1]) = MatchedAt(tracker.tracks, RawA[1])
        /\ MatchedAt(tracker'.tracks, RawB[1]) = MatchedAt(tracker.tracks, RawB[1])

\* C3: confirmation needs n_init consecutive matched frames since creation,
\* and the two persisting objects of the __main__ scenario are two Confirmed
\* tracks by the third call, each with the identifier it started with.
C3_Confirmation == [](C3_State) /\ [][C3_Step]_vars

\* the third frame of the scenario has been processed and has confirmed a
\* track on its third hit
C3_Witness ==
    /\ scen >= 3
    /\ ret = "ok"
    /\ \E i \in 1..Len(Live) : Live[i].state = "Confirmed" /\ Live[i].hits = n_init

\* the track at index i was matched by the association of the call that
\* led to the next state
MatchedInCall(i) ==
    \E p \in Tracker_match(Tracker_predict(tracker).tracks,
                           Val(log'.tracker_in), tracker.max_age).matches :
        p[1] = i

\* in every completed call a Confirmed track leaves the live set exactly
\* when it is unmatched and its time-since-update then exceeds the max_age
\* given at construction, and a Tentative track leaves it exactly when it is
\* unmatched.
C4_Step ==
    (IsCall /\ ret' = "ok") =>
        \A i \in 1..Len(tracker.tracks) :
            LET t == tracker.tracks[i]
                removed == t.track_id \notin TrackIds(returned')
            IN  IF t.state = "Confirmed"
                THEN removed <=> (~MatchedInCall(i)
                                  /\ t.time_since_update + 1 > args.max_age)
                ELSE removed <=> ~MatchedInCall(i)

\* C4: deletion threshold: the step property above holds of every call
\* (Confirmed tracks go when time-since-update exceeds max_age, Tentative
\* tracks on their first miss, and nothing else is removed).
C4_DeletionThreshold == [][C4_Step]_vars

\* the last call has removed a Confirmed track that was at the age limit,
\* and kept another Confirmed track that it did not match
C4_Witness ==
    /\ ret = "ok"
    /\ \E t \in dropped :
           t.state = "Confirmed" /\ t.time_since_update = args.max_age
    /\ \E i \in 1..Len(returned) :
           /\ returned[i].state = "Confirmed"
           /\ returned[i].time_since_update > 0

\* C8: a call that fails leaves the tracker as it was before the call.
C8_FailsAtomically ==
    [][(IsCall /\ ret' = "raise") => tracker' = tracker]_vars

----------------------------------------------------------------------------
(* Properties of the wrapper's input handling (SpecPipe) *)

\* a raw detection with strictly positive width and height
Positive(d) == d[1][3] > 0 /\ d[1][4] > 0
PositiveBox(b) == b[3] > 0 /\ b[4] > 0

\* the indices of the raw detections with positive width and height, in
\* input order
RECURSIVE PositiveIndices(_, _)
PositiveIndices(raw, i) ==
    IF i > Len(raw) THEN <<>>
    ELSE (IF Positive(raw[i]) THEN <<i>> ELSE <<>>) \o PositiveIndices(raw, i + 1)

\* C5: a call without embeds, made when there is no embedder or with no
\* frame, raises before the tracker's predict or update runs: nothing is
\* handed on and the tracker is as before the call.
C5_MissingEmbedsRaises ==
    [][(IsCall /\ call'.embeds = None
               /\ (embedder = None \/ call'.frame = None))
       => (ret' = "raise" /\ log' = NoLog /\ tracker' = tracker)]_vars

\* such a call has been made, with an embedder and no frame, on a tracker
\* that holds tracks
C5_Witness ==
    /\ ret = "raise"
    /\ call.embeds = None /\ call.frame = None /\ embedder # None
    /\ log = NoLog
    /\ tracker.tracks # <<>>

\* C6: a call whose embeds list differs in length from the detections is
\* rejected with an error and leaves the tracker unchanged.
C6_MismatchRejected ==
    [][(IsCall /\ call'.embeds # None
               /\ Len(Val(call'.embeds)) # Len(call'.raw)
               /\ Len(Val(call'.embeds)) # Len(PositiveIndices(call'.raw, 1)))
       => (ret' = "raise" /\ tracker' = tracker)]_vars

\* C7: the raw detections kept are exactly those with positive width and
\* height, in input order; the embedder, non-max suppression and the tracker
\* receive nothing else, and no track sits on a degenerate box.
C7_DegenerateDiscarded ==
    log.raw_dets # None =>
        LET idx == PositiveIndices(call.raw, 1) IN
        /\ Val(log.raw_dets) = [k \in 1..Len(idx) |-> call.raw[idx[k]]]
        /\ log.embedder_in # None => Val(log.embedder_in) = Val(log.raw_dets)
        /\ log.nms_in # None =>
               \A k \in 1..Len(Val(log.nms_in)) : PositiveBox(Val(log.nms_in)[k])
        /\ \A k \in 1..Len(Val(log.tracker_in)) :
               PositiveBox(Val(log.tracker_in)[k].tlwh)
        /\ \A i \in 1..Len(Live) : PositiveBox(Live[i].mean)

\* a frame with a degenerate detection ahead of a good one has gone through
\* the embedder, suppression and the tracker
C7_Witness ==
    /\ ret = "ok"
    /\ \E i, j \in 1..Len(call.raw) :
           i < j /\ ~Positive(call.raw[i]) /\ Positive(call.raw[j])
    /\ log.embedder_in # None /\ Val(log.embedder_in) # <<>>
    /\ log.nms_in # None
    /\ Val(log.tracker_in) # <<>>

\* the Detection without its descriptor, as a raw detection
AsRaw(d) == <<d.tlwh, d.confidence, d.class_name>>

\* C9: with the neutral threshold suppression is not invoked and the tracker
\* receives every non-degenerate detection of the frame in input order;
\* below it the tracker receives the detections at the returned indices, in
\* their order.
C9_SuppressionContract ==
    ret = "ok" =>
        LET idx == PositiveIndices(call.raw, 1)
            got == Val(log.tracker_in)
        IN  IF nms_max_overlap = NoSuppression
            THEN /\ log.nms_in = None /\ log.nms_out = None
                 /\ [k \in 1..Len(got) |-> AsRaw(got[k])]
                        = [k \in 1..Len(idx) |-> call.raw[idx[k]]]
            ELSE /\ log.nms_out # None
                 /\ got = [k \in 1..Len(Val(log.nms_out)) |->
                              Val(log.detections)[Val(log.nms_out)[k]]]

\* C10: with as many embeds as raw detections, each detection handed to the
\* tracker carries the descriptor given at its own index in the input.
C10_DescriptorAtOwnIndex ==
    (ret = "ok" /\ call.embeds # None
                /\ Len(Val(call.embeds)) = Len(call.raw)) =>
        LET idx == PositiveIndices(call.raw, 1)
            own == [k \in 1..Len(idx) |->
                       Detection(call.raw[idx[k]][1], call.raw[idx[k]][2],
                                 Val(call.embeds)[idx[k]], call.raw[idx[k]][3])]
            got == Val(log.tracker_in)
        IN  IF log.nms_out = None THEN got = own
            ELSE got = [k \in 1..Len(Val(log.nms_out)) |->
                           own[Val(log.nms_out)[k]]]

====
